---- MODULE Spec2Model ----
(***************************************************************************)
(* State machine of the VideoSceneBuilder component                        *)
(* (frontend/src/Pages/HomePage.jsx): the React state of the component,    *)
(* its event handlers, and the continuations of its two asynchronous       *)
(* handlers (handleAddScene, handleDownload) after each await.             *)
(*                                                                         *)
(* One action is one run-to-completion task of the browser's event loop:   *)
(* a user event handled to its end, or the continuation of an async        *)
(* function from one await to the next.  React re-renders between tasks,   *)
(* so a handler's closure holds the state as it is when the event arrives; *)
(* the async handlers keep the values they captured when they started.     *)
(***************************************************************************)
EXTENDS Integers, Sequences, FiniteSets, TLC

\* ------------------------------------------------------------------ bounds
\* user events (handler invocations) in one session
MaxEvents == 5
\* exports that get past the empty-timeline guard in one session
MaxExports == 1

\* ------------------------------------------------------------------ values
\* the characters String.prototype.trim strips, as far as the inputs below use them
Whitespace == {" ", "\n"}
\* the texts typed into the description box: empty, whitespace only, and texts
\* with whitespace around a name; two of them trim to the same name
Descs == {<<>>, <<" ", "\n">>, <<"a">>, <<" ", "a">>, <<"b", "\n">>}

NoId == <<>>
NoName == <<>>
NoUrl == <<>>

VARIABLES
  scenes,         \* useState([]): the Scene Store, a sequence of [id, name, url]
  timeline,       \* useState([]): the Timeline, a sequence of [id, name, url]
  logs,           \* useState(["System initialized."])
  desc,           \* useState(""): the description box
  previewUrl,     \* useState("")
  isGenerating,   \* useState(false)
  isDownloading,  \* useState(false)
  gen,            \* the running handleAddScene call: [pc, trimmed]
  exports,        \* the handleDownload calls that got past the guard, in order
  requests,       \* every fetch() issued so far, in order of issue
  uuids,          \* number of crypto.randomUUID() calls so far
  urlsMade,       \* number of URL.createObjectURL() calls so far
  objectUrls,     \* object URLs created and not revoked
  nEvents,        \* number of user events handled so far
  lastEvent,      \* the user event handled last: [op, id, over, text]
  \* the backend container's docker-entrypoint.sh, a process of its own
  bootPc,         \* where the script stands: "wait" (the polling loop), "sleep",
                  \* "init" (before python init_db.py), "exec" (before exec "$@"),
                  \* "server" (the server command has replaced the shell), "exited"
  attempt,        \* attempt of the polling loop
  dbUp,           \* whether the database accepts connections right now
  connected,      \* whether a psycopg2.connect of the loop has succeeded
  initStatus,     \* exit status of python init_db.py, NotRun before it has run
  exitCode        \* exit code of the script, NotRun while it has not exited

bootVars == <<bootPc, attempt, dbUp, connected, initStatus, exitCode>>

vars == <<scenes, timeline, logs, desc, previewUrl, isGenerating, isDownloading,
          gen, exports, requests, uuids, urlsMade, objectUrls, nEvents, lastEvent,
          bootVars>>

\* ------------------------------------------------------------ pure helpers
RECURSIVE TrimStart(_)
TrimStart(s) ==
  IF s = <<>> THEN <<>>
  ELSE IF Head(s) \in Whitespace THEN TrimStart(Tail(s)) ELSE s

RECURSIVE TrimEnd(_)
TrimEnd(s) ==
  IF s = <<>> THEN <<>>
  ELSE IF s[Len(s)] \in Whitespace THEN TrimEnd(SubSeq(s, 1, Len(s) - 1)) ELSE s

\* mutant of Trim: the prompt is tested as typed
NoTrim(s) == s

\* String.prototype.trim
Trim(s) == TrimEnd(TrimStart(s))

\* `scene-${crypto.randomUUID()}` and `timeline-${crypto.randomUUID()}`: the
\* n-th UUID drawn differs from all drawn before
SceneId(n) == <<"scene", n>>
TimelineId(n) == <<"timeline", n>>
\* URL.createObjectURL: the k-th object URL differs from all made before
ObjectUrl(k) == <<"blob", k>>

Ids(items) == {items[i].id : i \in 1..Len(items)}

\* Array.prototype.findIndex, 1-based; 0 where JavaScript gives -1
FindIndex(items, id) ==
  IF \E i \in 1..Len(items) : items[i].id = id
  THEN CHOOSE i \in 1..Len(items) :
         items[i].id = id /\ \A j \in 1..(i - 1) : items[j].id # id
  ELSE 0

\* mutant of FilterOut: the test of the filter inverted
RECURSIVE KeepOnly(_, _)
KeepOnly(items, id) ==
  IF items = <<>> THEN <<>>
  ELSE IF Head(items).id = id THEN <<Head(items)>> \o KeepOnly(Tail(items), id)
       ELSE KeepOnly(Tail(items), id)

\* Array.prototype.filter((item) => item.id !== id)
RECURSIVE FilterOut(_, _)
FilterOut(items, id) ==
  IF items = <<>> THEN <<>>
  ELSE IF Head(items).id = id THEN FilterOut(Tail(items), id)
       ELSE <<Head(items)>> \o FilterOut(Tail(items), id)

\* mutant of ArrayMove: the element is written to its new place and not taken
\* out of the old one
ArrayMoveOverwrite(items, from, to) == [items EXCEPT ![to] = items[from]]

\* arrayMove of @dnd-kit/sortable: splice the element out of position from and
\* back in at position to (1-based here)
ArrayMove(items, from, to) ==
  LET without == [i \in 1..(Len(items) - 1) |->
                    IF i < from THEN items[i] ELSE items[i + 1]]
  IN [i \in 1..Len(items) |->
        IF i < to THEN without[i]
        ELSE IF i = to THEN items[from]
        ELSE without[i - 1]]

\* ------------------------------------------------------------------- logs
Message(kind, text, name, n) == [kind |-> kind, text |-> text, name |-> name, n |-> n]

\* mutant of AddLog: a line equal to the newest one is not written again
AddLogDeduplicated(prev, time, message) ==
  IF prev[Len(prev)].message = message
  THEN prev
  ELSE Append(prev, [time |-> time, message |-> message])

\* mutant of AddLog: the newest line is put first
AddLogNewestFirst(prev, time, message) ==
  <<[time |-> time, message |-> message]>> \o prev

\* addLog: `[${new Date().toLocaleTimeString()}] ${message}` appended to prev.
\* The clock reading is the count of user events handled so far.
LogLine(time, message) == [time |-> time, message |-> message]
AddLog(prev, time, message) == Append(prev, LogLine(time, message))

\* an Error: its message is text followed by name
Error(text, name) == [text |-> text, name |-> name]
NoError == Error("", NoName)
\* rejection of fetch() (network failure), of Response.json() and of Response.blob()
FetchTypeError == Error("Failed to fetch", NoName)
JsonSyntaxError == Error("Unexpected token in JSON", NoName)
BodyTypeError == Error("Failed to read body", NoName)
\* `❌ ERROR: ${error.message}`
ErrorMessage(e) == Message("error", e.text, e.name, 0)

\* -------------------------------------------------------------- requests
Request(kind, job, idx, text, url, paths) ==
  [kind |-> kind, job |-> job, idx |-> idx, text |-> text, url |-> url, paths |-> paths]

Event(op, id, over, text) == [op |-> op, id |-> id, over |-> over, text |-> text]

GenIdle == [pc |-> "idle", trimmed |-> NoName]

\* no exit status yet
NotRun == -1

\* ------------------------------------------------------------------ Init
Init ==
  /\ scenes = <<>>
  /\ timeline = <<>>
  /\ logs = <<LogLine(0, Message("init", "", NoName, 0))>>
  /\ desc = <<>>
  /\ previewUrl = NoUrl
  /\ isGenerating = FALSE
  /\ isDownloading = FALSE
  /\ gen = GenIdle
  /\ exports = <<>>
  /\ requests = <<>>
  /\ uuids = 0
  /\ urlsMade = 0
  /\ objectUrls = {}
  /\ nEvents = 0
  /\ lastEvent = Event("none", NoId, NoId, <<>>)
  /\ bootPc = "wait"
  /\ attempt = 0
  /\ dbUp = FALSE
  /\ connected = FALSE
  /\ initStatus = NotRun
  /\ exitCode = NotRun

\* a user event is handled: op with its arguments
UserEvent(op, id, over, text) ==
  /\ nEvents < MaxEvents
  /\ nEvents' = nEvents + 1
  /\ lastEvent' = Event(op, id, over, text)
  /\ UNCHANGED bootVars

\* the clock reading of a log line written in this step
Now == nEvents

\* onChange of the textarea: setDesc(e.target.value)
SetDesc(d) ==
  /\ d # desc
  /\ UserEvent("setDesc", NoId, NoId, d)
  /\ desc' = d
  /\ UNCHANGED <<scenes, timeline, logs, previewUrl, isGenerating, isDownloading,
                 gen, exports, requests, uuids, urlsMade, objectUrls>>

\* handlePreviewScene(scene), from a click on a rendered scene
HandlePreviewScene(scene) ==
  /\ UserEvent("preview", scene.id, NoId, <<>>)
  /\ IF scene.url = NoUrl
     THEN /\ logs' = AddLog(logs, Now, Message("noVideo", "", scene.name, 0))
          /\ UNCHANGED previewUrl
     ELSE /\ previewUrl' = scene.url
          /\ logs' = AddLog(logs, Now, Message("previewing", "", scene.name, 0))
  /\ UNCHANGED <<scenes, timeline, desc, isGenerating, isDownloading,
                 gen, exports, requests, uuids, urlsMade, objectUrls>>

\* mutant of NewTimelineItem: the copy keeps the id of the scene
CopyWithSceneId(sourceScene, n) == sourceScene

\* the Timeline Entry made from a dragged scene: {...sourceScene, id: `timeline-${uuid}`}
NewTimelineItem(sourceScene, n) ==
  [id |-> TimelineId(n), name |-> sourceScene.name, url |-> sourceScene.url]

\* mutant of ShouldReorder: a drop on the dragged entry itself counts as a move
ShouldReorderOntoItself(sourceTimelineIndex, overTimelineIndex) ==
  sourceTimelineIndex # 0 /\ overTimelineIndex # 0

\* sourceTimelineIndex !== -1, overTimelineIndex !== -1 and
\* sourceTimelineIndex !== overTimelineIndex
ShouldReorder(sourceTimelineIndex, overTimelineIndex) ==
  /\ sourceTimelineIndex # 0
  /\ overTimelineIndex # 0
  /\ sourceTimelineIndex # overTimelineIndex

\* handleDragEnd({active, over}); over = NoId stands for a null over
HandleDragEnd(active, over) ==
  /\ UserEvent("dragEnd", active, over, <<>>)
  /\ LET sourceSceneIndex == FindIndex(scenes, active)
         sourceTimelineIndex == FindIndex(timeline, active)
         overTimelineIndex == FindIndex(timeline, over)
     IN IF over = NoId
        THEN UNCHANGED <<timeline, logs, uuids>>
        ELSE IF sourceSceneIndex # 0
        THEN /\ uuids' = uuids + 1
             /\ timeline' = Append(timeline,
                                   NewTimelineItem(scenes[sourceSceneIndex], uuids + 1))
             /\ logs' = AddLog(logs, Now,
                               Message("added", "", scenes[sourceSceneIndex].name, 0))
        ELSE IF ShouldReorder(sourceTimelineIndex, overTimelineIndex)
        THEN /\ timeline' = ArrayMove(timeline, sourceTimelineIndex, overTimelineIndex)
             /\ logs' = AddLog(logs, Now, Message("reordered", "", NoName, 0))
             /\ UNCHANGED uuids
        ELSE UNCHANGED <<timeline, logs, uuids>>
  /\ UNCHANGED <<scenes, desc, previewUrl, isGenerating, isDownloading,
                 gen, exports, requests, urlsMade, objectUrls>>

\* handleDeleteFromTimeline(id), from the delete button of a rendered entry
HandleDeleteFromTimeline(id) ==
  /\ UserEvent("delete", id, NoId, <<>>)
  /\ timeline' = FilterOut(timeline, id)
  /\ logs' = AddLog(logs, Now, Message("removed", "", NoName, 0))
  /\ UNCHANGED <<scenes, desc, previewUrl, isGenerating, isDownloading,
                 gen, exports, requests, uuids, urlsMade, objectUrls>>

\* handleSave
HandleSave ==
  /\ UserEvent("save", NoId, NoId, <<>>)
  /\ logs' = AddLog(logs, Now, Message("saved", "", NoName, Len(timeline)))
  /\ UNCHANGED <<scenes, timeline, desc, previewUrl, isGenerating, isDownloading,
                 gen, exports, requests, uuids, urlsMade, objectUrls>>

\* ---------------------------------------------------------- handleAddScene
\* mutant of GenFails: the failure also clears the preview
GenFailsClearsPreview(error) ==
  /\ logs' = AddLog(logs, Now, ErrorMessage(error))
  /\ isGenerating' = FALSE
  /\ gen' = GenIdle
  /\ previewUrl' = NoUrl
  /\ UNCHANGED <<scenes, timeline, desc, isDownloading, exports,
                 requests, uuids, urlsMade, objectUrls, nEvents, lastEvent, bootVars>>

\* mutant of GenFails: the loading state is not reset
GenFailsStaysBusy(error) ==
  /\ logs' = AddLog(logs, Now, ErrorMessage(error))
  /\ gen' = GenIdle
  /\ UNCHANGED <<scenes, timeline, desc, previewUrl, isGenerating, isDownloading,
                 exports, requests, uuids, urlsMade, objectUrls, nEvents, lastEvent, bootVars>>

\* catch (error) { addLog(`ERROR: ${error.message}`) } finally { setIsGenerating(false) }
GenFails(error) ==
  /\ logs' = AddLog(logs, Now, ErrorMessage(error))
  /\ isGenerating' = FALSE
  /\ gen' = GenIdle
  /\ UNCHANGED <<scenes, timeline, desc, previewUrl, isDownloading, exports,
                 requests, uuids, urlsMade, objectUrls, nEvents, lastEvent, bootVars>>

\* mutant of NewScene: the id is made from the prompt, not from a UUID
NewSceneIdFromPrompt(trimmed, n, k) ==
  [id |-> SceneId(Len(trimmed)), name |-> trimmed, url |-> ObjectUrl(k)]

\* the scene built from a successful response: id from the n-th UUID, url the
\* k-th object URL
NewScene(trimmed, n, k) == [id |-> SceneId(n), name |-> trimmed, url |-> ObjectUrl(k)]

\* mutant of StoreScene: the new scene is put first
StoreSceneFirst(s, newScene) == <<newScene>> \o s

\* setScenes((s) => [...s, newScene])
StoreScene(s, newScene) == Append(s, newScene)

\* mutant of AddSceneEnabled: the button is never disabled
AddSceneAlwaysEnabled == TRUE

\* disabled={isGenerating} of the Add Scene button
AddSceneEnabled == ~isGenerating

\* a click on the Add Scene button (disabled while isGenerating): the handler
\* up to its first await
HandleAddScene ==
  /\ AddSceneEnabled
  /\ UserEvent("addScene", NoId, NoId, desc)
  /\ LET trimmed == Trim(desc)
     IN IF trimmed = <<>>
        THEN UNCHANGED <<isGenerating, logs, requests, gen>>
        ELSE /\ isGenerating' = TRUE
             /\ logs' = AddLog(logs, Now, Message("requesting", "", trimmed, 0))
             /\ requests' = Append(requests,
                                   Request("generate", 0, 0, trimmed, NoUrl, <<>>))
             /\ gen' = [pc |-> "fetch", trimmed |-> trimmed]
  /\ UNCHANGED <<scenes, timeline, desc, previewUrl, isDownloading, exports,
                 uuids, urlsMade, objectUrls>>

\* await fetch(.../generate-scene/) rejects: the request never got a response
GenFetchRejected ==
  /\ gen.pc = "fetch"
  /\ GenFails(FetchTypeError)

\* await fetch(.../generate-scene/) resolves with a response, ok or not
GenFetchResponded(ok) ==
  /\ gen.pc = "fetch"
  /\ gen' = [gen EXCEPT !.pc = IF ok THEN "blob" ELSE "errorJson"]
  /\ UNCHANGED <<scenes, timeline, logs, desc, previewUrl, isGenerating,
                 isDownloading, exports, requests, uuids, urlsMade, objectUrls,
                 nEvents, lastEvent, bootVars>>

\* the Error thrown for a response that is not ok, once its body has been read:
\* errorData.detail || fallback; a body that is no JSON rejects the read
ResponseError(body, fallback) ==
  CASE body = "detail" -> Error("detail from the service", NoName)
    [] body = "noDetail" -> Error(fallback, NoName)
    [] OTHER -> JsonSyntaxError

ErrorBodies == {"detail", "noDetail", "notJson"}

\* await response.json() of a response that is not ok settles; the throw follows
GenErrorJson(body) ==
  /\ gen.pc = "errorJson"
  /\ GenFails(ResponseError(body, "Backend failed to generate video."))

\* await response.blob() settles; on success the scene is made and stored
GenBlob(bodyRead) ==
  /\ gen.pc = "blob"
  /\ IF bodyRead
     THEN /\ urlsMade' = urlsMade + 1
          /\ objectUrls' = objectUrls \cup {ObjectUrl(urlsMade + 1)}
          /\ uuids' = uuids + 1
          /\ scenes' = StoreScene(scenes, NewScene(gen.trimmed, uuids + 1, urlsMade + 1))
          /\ previewUrl' = ObjectUrl(urlsMade + 1)
          /\ logs' = AddLog(logs, Now, Message("generated", "", gen.trimmed, 0))
          /\ desc' = <<>>
          /\ isGenerating' = FALSE
          /\ gen' = GenIdle
          /\ UNCHANGED <<timeline, isDownloading, exports, requests, nEvents, lastEvent, bootVars>>
     ELSE GenFails(BodyTypeError)

\* ---------------------------------------------------------- handleDownload
\* One export is [pc, tasks, paths]: pc is where handleDownload stands
\* ("uploading" at await Promise.all, "stitch" at await fetch(stitch-story),
\* "errorJson", "blob", then "done" or "failed"); tasks[i] is the async callback
\* of timeline.map for entry i, [scene, pc, path], with pc "fetchLocal", "blob",
\* "upload", "json", then "done" or "failed".
NoPath == <<>>
\* data.file_path of the response to the k-th request received by the service
ServerPath(k) == <<"path", k>>

UploadTask(scene) == [scene |-> scene, pc |-> "fetchLocal", path |-> NoPath]

\* throw new Error(`Failed to upload clip for scene: ${scene.name}`)
UploadError(scene) == Error("Failed to upload clip for scene: ", scene.name)

\* mutant of AllFulfilled: the uploads are raced, not joined
AnyFulfilled(tasks) == \E i \in 1..Len(tasks) : tasks[i].pc = "done"

\* Promise.all fulfilled: every promise of the array is fulfilled
AllFulfilled(tasks) == \A i \in 1..Len(tasks) : tasks[i].pc = "done"

\* the value of Promise.all: the promises' values in the order of the array
FilePaths(tasks) == [i \in 1..Len(tasks) |-> tasks[i].path]

\* mutant of IsEmptyTimeline: the guard clause is missing
NeverEmpty(items) == FALSE

\* timeline.length === 0
IsEmptyTimeline(items) == Len(items) = 0

\* a click on the Download button (disabled while isDownloading): the handler up
\* to await Promise.all; each callback of timeline.map runs to its first await,
\* fetch(scene.url)
HandleDownload ==
  /\ ~isDownloading
  /\ IsEmptyTimeline(timeline) \/ Len(exports) < MaxExports
  /\ UserEvent("download", NoId, NoId, <<>>)
  /\ IF IsEmptyTimeline(timeline)
     THEN /\ logs' = AddLog(logs, Now, Message("emptyTimeline", "", NoName, 0))
          /\ UNCHANGED <<isDownloading, exports, requests>>
     ELSE /\ isDownloading' = TRUE
          /\ logs' = AddLog(AddLog(logs, Now, Message("starting", "", NoName, 0)),
                            Now, Message("uploading", "", NoName, Len(timeline)))
          /\ exports' = Append(exports,
                               [pc |-> "uploading",
                                tasks |-> [i \in 1..Len(timeline) |-> UploadTask(timeline[i])]])
          /\ requests' = requests \o
                           [i \in 1..Len(timeline) |->
                              Request("fetchLocal", Len(exports) + 1, i, NoName,
                                      timeline[i].url, <<>>)]
  /\ UNCHANGED <<scenes, timeline, desc, previewUrl, isGenerating, gen,
                 uuids, urlsMade, objectUrls>>

\* catch (error) { addLog(`ERROR: ${error.message}`) } finally { setIsDownloading(false) }
\* of export j, which stops there
ExportFails(j, tasks, error) ==
  /\ exports' = [exports EXCEPT ![j] = [pc |-> "failed", tasks |-> tasks]]
  /\ logs' = AddLog(logs, Now, ErrorMessage(error))
  /\ isDownloading' = FALSE

\* task i of export j ends in tasks; handleDownload of export j is resumed by
\* Promise.all if that settles it: rejected by the first task to fail, fulfilled
\* when the last task is done, and then the stitch request is issued
TaskSettles(j, tasks, failed, error) ==
  IF exports[j].pc # "uploading"
  THEN /\ exports' = [exports EXCEPT ![j].tasks = tasks]
       /\ UNCHANGED <<logs, isDownloading, requests>>
  ELSE IF failed
  THEN /\ ExportFails(j, tasks, error)
       /\ UNCHANGED requests
  ELSE IF AllFulfilled(tasks)
  THEN /\ exports' = [exports EXCEPT ![j] = [pc |-> "stitch", tasks |-> tasks]]
       /\ logs' = AddLog(AddLog(logs, Now, Message("allUploaded", "", NoName, 0)),
                         Now, Message("stitching", "", NoName, 0))
       /\ requests' = Append(requests,
                             Request("stitch", j, 0, NoName, NoUrl, FilePaths(tasks)))
       /\ UNCHANGED isDownloading
  ELSE /\ exports' = [exports EXCEPT ![j].tasks = tasks]
       /\ UNCHANGED <<logs, isDownloading, requests>>

TaskAt(j, i, pc) ==
  /\ j \in 1..Len(exports)
  /\ i \in 1..Len(exports[j].tasks)
  /\ exports[j].tasks[i].pc = pc

\* mutant of ClipOf: the callback reads entry i of the Timeline as it is now
ClipOfTimelineNow(j, i) ==
  IF i <= Len(timeline)
  THEN timeline[i]
  ELSE [id |-> NoId, name |-> NoName, url |-> NoUrl]

\* scene, the parameter of the callback of timeline.map: entry i of the
\* Timeline that handleDownload of export j had in its closure
ClipOf(j, i) == exports[j].tasks[i].scene

\* await fetch(scene.url) of task i resolves: the object URL of a scene is never
\* revoked, so its blob is there
TaskLocalFetched(j, i) ==
  /\ TaskAt(j, i, "fetchLocal")
  /\ exports' = [exports EXCEPT ![j].tasks[i].pc = "blob"]
  /\ UNCHANGED <<scenes, timeline, logs, desc, previewUrl, isGenerating,
                 isDownloading, gen, requests, uuids, urlsMade, objectUrls,
                 nEvents, lastEvent, bootVars>>

\* await response.blob() of task i resolves; the upload request is issued, its
\* file named `${scene.id}.mp4`
TaskBlobRead(j, i) ==
  /\ TaskAt(j, i, "blob")
  /\ exports' = [exports EXCEPT ![j].tasks[i].pc = "upload"]
  /\ requests' = Append(requests,
                        Request("upload", j, i, ClipOf(j, i).id, ClipOf(j, i).url, <<>>))
  /\ UNCHANGED <<scenes, timeline, logs, desc, previewUrl, isGenerating,
                 isDownloading, gen, uuids, urlsMade, objectUrls, nEvents, lastEvent, bootVars>>

\* await fetch(.../upload-clip/) of task i rejects: no response
TaskUploadRejected(j, i) ==
  /\ TaskAt(j, i, "upload")
  /\ TaskSettles(j, [exports[j].tasks EXCEPT ![i].pc = "failed"], TRUE, FetchTypeError)
  /\ UNCHANGED <<scenes, timeline, desc, previewUrl, isGenerating, gen,
                 uuids, urlsMade, objectUrls, nEvents, lastEvent, bootVars>>

\* await fetch(.../upload-clip/) of task i resolves with a response, ok or not
TaskUploadResponded(j, i, ok) ==
  /\ TaskAt(j, i, "upload")
  /\ IF ok
     THEN /\ exports' = [exports EXCEPT ![j].tasks[i].pc = "json"]
          /\ UNCHANGED <<logs, isDownloading, requests>>
     ELSE TaskSettles(j, [exports[j].tasks EXCEPT ![i].pc = "failed"], TRUE,
                      UploadError(ClipOf(j, i)))
  /\ UNCHANGED <<scenes, timeline, desc, previewUrl, isGenerating, gen,
                 uuids, urlsMade, objectUrls, nEvents, lastEvent, bootVars>>

\* the position in requests of the upload request of task i of export j
UploadRequestIndex(j, i) ==
  CHOOSE k \in 1..Len(requests) :
    requests[k].kind = "upload" /\ requests[k].job = j /\ requests[k].idx = i

\* await uploadResponse.json() of task i settles; on success the task returns
\* data.file_path
TaskJsonRead(j, i, bodyRead) ==
  /\ TaskAt(j, i, "json")
  /\ IF bodyRead
     THEN TaskSettles(j, [exports[j].tasks EXCEPT
                            ![i].pc = "done",
                            ![i].path = ServerPath(UploadRequestIndex(j, i))],
                      FALSE, NoError)
     ELSE TaskSettles(j, [exports[j].tasks EXCEPT ![i].pc = "failed"], TRUE,
                      JsonSyntaxError)
  /\ UNCHANGED <<scenes, timeline, desc, previewUrl, isGenerating, gen,
                 uuids, urlsMade, objectUrls, nEvents, lastEvent, bootVars>>

ExportAt(j, pc) ==
  /\ j \in 1..Len(exports)
  /\ exports[j].pc = pc

\* await fetch(.../stitch-story/) rejects: no response
StitchRejected(j) ==
  /\ ExportAt(j, "stitch")
  /\ ExportFails(j, exports[j].tasks, FetchTypeError)
  /\ UNCHANGED <<scenes, timeline, desc, previewUrl, isGenerating, gen, requests,
                 uuids, urlsMade, objectUrls, nEvents, lastEvent, bootVars>>

\* await fetch(.../stitch-story/) resolves with a response, ok or not
StitchResponded(j, ok) ==
  /\ ExportAt(j, "stitch")
  /\ exports' = [exports EXCEPT ![j].pc = IF ok THEN "blob" ELSE "errorJson"]
  /\ UNCHANGED <<scenes, timeline, logs, desc, previewUrl, isGenerating,
                 isDownloading, gen, requests, uuids, urlsMade, objectUrls,
                 nEvents, lastEvent, bootVars>>

\* await stitchResponse.json() of a response that is not ok settles; the throw follows
StitchErrorJson(j, body) ==
  /\ ExportAt(j, "errorJson")
  /\ ExportFails(j, exports[j].tasks,
                 ResponseError(body, "Backend failed to stitch the story."))
  /\ UNCHANGED <<scenes, timeline, desc, previewUrl, isGenerating, gen, requests,
                 uuids, urlsMade, objectUrls, nEvents, lastEvent, bootVars>>

\* an exception of the DOM calls between createObjectURL and revokeObjectURL
DomError == Error("DOM exception", NoName)

\* await stitchResponse.blob() settles; on success the download is triggered:
\* createObjectURL, the DOM calls on the temporary link (which go through or
\* throw), revokeObjectURL, the closing log line
StitchBlob(j, bodyRead, delivered) ==
  /\ ExportAt(j, "blob")
  /\ IF ~bodyRead
     THEN /\ ExportFails(j, exports[j].tasks, BodyTypeError)
          /\ UNCHANGED <<urlsMade, objectUrls>>
     ELSE /\ urlsMade' = urlsMade + 1
          /\ IF delivered
             THEN /\ objectUrls' = (objectUrls \cup {ObjectUrl(urlsMade + 1)})
                                     \ {ObjectUrl(urlsMade + 1)}
                  /\ exports' = [exports EXCEPT ![j].pc = "done"]
                  /\ logs' = AddLog(logs, Now, Message("downloaded", "", NoName, 0))
                  /\ isDownloading' = FALSE
             ELSE /\ objectUrls' = objectUrls \cup {ObjectUrl(urlsMade + 1)}
                  /\ ExportFails(j, exports[j].tasks, DomError)
  /\ UNCHANGED <<scenes, timeline, desc, previewUrl, isGenerating, gen, requests,
                 uuids, nEvents, lastEvent, bootVars>>

\* ------------------------------------------------------------------ Next
\* the ids of the rendered sortable items: what a drag can start on or end over
Rendered == Ids(scenes) \cup Ids(timeline)

Jobs == 1..MaxExports
Slots == 1..MaxEvents

Next ==
  \/ \E d \in Descs : SetDesc(d)
  \/ HandleAddScene
  \/ GenFetchRejected
  \/ \E ok \in BOOLEAN : GenFetchResponded(ok)
  \/ \E body \in ErrorBodies : GenErrorJson(body)
  \/ \E bodyRead \in BOOLEAN : GenBlob(bodyRead)
  \/ \E i \in 1..Len(scenes) : HandlePreviewScene(scenes[i])
  \/ \E active \in Rendered : \E over \in Rendered \cup {NoId} : HandleDragEnd(active, over)
  \/ \E id \in Ids(timeline) : HandleDeleteFromTimeline(id)
  \/ HandleSave
  \/ HandleDownload
  \/ \E j \in Jobs, i \in Slots : TaskLocalFetched(j, i)
  \/ \E j \in Jobs, i \in Slots : TaskBlobRead(j, i)
  \/ \E j \in Jobs, i \in Slots : TaskUploadRejected(j, i)
  \/ \E j \in Jobs, i \in Slots, ok \in BOOLEAN : TaskUploadResponded(j, i, ok)
  \/ \E j \in Jobs, i \in Slots, bodyRead \in BOOLEAN : TaskJsonRead(j, i, bodyRead)
  \/ \E j \in Jobs : StitchRejected(j)
  \/ \E j \in Jobs, ok \in BOOLEAN : StitchResponded(j, ok)
  \/ \E j \in Jobs, body \in ErrorBodies : StitchErrorJson(j, body)
  \/ \E j \in Jobs, bodyRead \in BOOLEAN, delivered \in BOOLEAN : StitchBlob(j, bodyRead, delivered)

Spec == Init /\ [][Next]_vars

\* the steps of handleAddScene after its fetch was issued: the request settles
\* and the handler resumes after the await
GenContinues ==
  \/ GenFetchRejected
  \/ \E ok \in BOOLEAN : GenFetchResponded(ok)
  \/ \E body \in ErrorBodies : GenErrorJson(body)
  \/ \E bodyRead \in BOOLEAN : GenBlob(bodyRead)

\* the steps of handleDownload of export j after it was triggered
ExportContinues(j) ==
  \/ \E i \in Slots : TaskLocalFetched(j, i)
  \/ \E i \in Slots : TaskBlobRead(j, i)
  \/ \E i \in Slots : TaskUploadRejected(j, i)
  \/ \E i \in Slots, ok \in BOOLEAN : TaskUploadResponded(j, i, ok)
  \/ \E i \in Slots, bodyRead \in BOOLEAN : TaskJsonRead(j, i, bodyRead)
  \/ StitchRejected(j)
  \/ \E ok \in BOOLEAN : StitchResponded(j, ok)
  \/ \E body \in ErrorBodies : StitchErrorJson(j, body)
  \/ \E bodyRead \in BOOLEAN, delivered \in BOOLEAN : StitchBlob(j, bodyRead, delivered)

\* every awaited request or body read settles, one way or the other, and the
\* event loop then runs the handler that awaits it; the user may stop acting
LiveSpec ==
  /\ Init
  /\ [][Next]_vars
  /\ WF_vars(GenContinues)
  /\ \A j \in Jobs : WF_vars(ExportContinues(j))

\* ------------------------------------------------- docker-entrypoint.sh
\* The script of the backend container: the python -c polling loop, python
\* init_db.py, exec "$@".  The frontend's variables are not its concern.
appVars == <<scenes, timeline, logs, desc, previewUrl, isGenerating, isDownloading,
             gen, exports, requests, uuids, urlsMade, objectUrls, nEvents, lastEvent>>

\* max_attempts = 30
MaxAttempts == 30

\* the exit statuses of python init_db.py that are told apart
InitStatuses == {0, 1}

\* mutant of MoreAttempts: the loop test is off by one
OneMoreAttempt(n) == n <= MaxAttempts

\* while attempt < max_attempts
MoreAttempts(n) == n < MaxAttempts

\* mutant of ErrExit: the script runs without set -e
NoErrExit == FALSE

\* set -e
ErrExit == TRUE

\* a command of the script has ended with status: under set -e a status other
\* than 0 ends the script with that status, else the script goes on at next
AfterCommand(status, next) ==
  IF status # 0 /\ ErrExit
  THEN /\ bootPc' = "exited"
       /\ exitCode' = status
  ELSE /\ bootPc' = next
       /\ UNCHANGED exitCode

\* the database starts or stops accepting connections while the script polls
DbChanges ==
  /\ bootPc \in {"wait", "sleep"}
  /\ dbUp' = ~dbUp
  /\ UNCHANGED <<bootPc, attempt, connected, initStatus, exitCode, appVars>>

\* one turn of the loop: psycopg2.connect succeeds (conn.close(), break, and
\* python ends with status 0) or raises OperationalError (attempt += 1, sleep)
Connect ==
  /\ bootPc = "wait"
  /\ MoreAttempts(attempt)
  /\ IF dbUp
     THEN /\ connected' = TRUE
          /\ AfterCommand(0, "init")
          /\ UNCHANGED attempt
     ELSE /\ attempt' = attempt + 1
          /\ bootPc' = "sleep"
          /\ UNCHANGED <<connected, exitCode>>
  /\ UNCHANGED <<dbUp, initStatus, appVars>>

\* time.sleep(2) returns
Wake ==
  /\ bootPc = "sleep"
  /\ bootPc' = "wait"
  /\ UNCHANGED <<attempt, dbUp, connected, initStatus, exitCode, appVars>>

\* the loop test fails: the else clause of the while prints and calls exit(1)
GiveUp ==
  /\ bootPc = "wait"
  /\ ~MoreAttempts(attempt)
  /\ AfterCommand(1, "init")
  /\ UNCHANGED <<attempt, dbUp, connected, initStatus, appVars>>

\* python init_db.py ends with status
RunInitDb(status) ==
  /\ bootPc = "init"
  /\ initStatus' = status
  /\ AfterCommand(status, "exec")
  /\ UNCHANGED <<attempt, dbUp, connected, appVars>>

\* exec "$@": the server command takes the place of the shell
ExecServer ==
  /\ bootPc = "exec"
  /\ bootPc' = "server"
  /\ UNCHANGED <<attempt, dbUp, connected, initStatus, exitCode, appVars>>

BootNext ==
  \/ DbChanges
  \/ Connect
  \/ Wake
  \/ GiveUp
  \/ \E status \in InitStatuses : RunInitDb(status)
  \/ ExecServer

BootSpec == Init /\ [][BootNext]_vars

\* ================================================================ claims
Last(seq) == seq[Len(seq)]
IsPrefix(a, b) == Len(a) <= Len(b) /\ SubSeq(b, 1, Len(a)) = a
Range(seq) == {seq[i] : i \in 1..Len(seq)}
\* how often each element occurs in a sequence
Occurrences(seq) == [x \in Range(seq) |-> Cardinality({i \in 1..Len(seq) : seq[i] = x})]
Kinds(lines) == {lines[i].message.kind : i \in 1..Len(lines)}

\* a text that is empty or holds nothing but whitespace
IsBlank(text) == \A i \in 1..Len(text) : text[i] \in Whitespace

\* this step is the handling of the user event op
Handled(op) == nEvents' = nEvents + 1 /\ lastEvent'.op = op

\* C1: handleAddScene invoked with an empty or whitespace-only prompt issues no
\* network request and leaves the Scene Store as it was.
C1_BlankPromptIsRejectedLocally ==
  [][(Handled("addScene") /\ IsBlank(lastEvent'.text))
       => (requests' = requests /\ scenes' = scenes)]_vars

\* a whitespace-only prompt was submitted while the Scene Store held a scene
C1_Witness ==
  /\ lastEvent.op = "addScene"
  /\ lastEvent.text # <<>>
  /\ IsBlank(lastEvent.text)
  /\ Len(scenes) > 0

\* this step is the continuation of handleAddScene that reports success
GenerationSucceeds ==
  /\ gen.pc = "blob"
  /\ gen'.pc = "idle"
  /\ Last(logs').message.kind = "generated"

\* C2: a successful generation response adds exactly one Scene, at the end of
\* the Scene Store, with an id no stored Scene has, and the active preview
\* becomes that Scene's media, whatever was interleaved while in flight.
C2_SuccessAppendsOneFreshScene ==
  [][GenerationSucceeds
       => /\ Len(scenes') = Len(scenes) + 1
          /\ IsPrefix(scenes, scenes')
          /\ Last(scenes').id \notin Ids(scenes)
          /\ Last(scenes').url # NoUrl
          /\ previewUrl' = Last(scenes').url]_vars

\* a second scene was generated while the user previewed the first one during
\* the request, and the preview shows the new scene
C2_Witness ==
  /\ Len(scenes) = 2
  /\ Len(logs) >= 3
  /\ logs[Len(logs)].message.kind = "generated"
  /\ logs[Len(logs) - 1].message.kind = "previewing"
  /\ logs[Len(logs) - 2].message.kind = "requesting"
  /\ previewUrl = scenes[2].url
  /\ scenes[1].id # scenes[2].id

\* this step is a completed drag of a Scene onto a drop target
SceneDragged ==
  /\ Handled("dragEnd")
  /\ lastEvent'.id \in Ids(scenes)
  /\ lastEvent'.over # NoId

\* C3: every completed drag of a Scene appends one Timeline Entry carrying the
\* Scene's name and url under an id that is neither the Scene's nor that of any
\* entry already there, so N drags of one Scene leave N entries with pairwise
\* distinct ids, whatever timeline operations come between them.
C3_DragsAppendDistinctEntries ==
  /\ [](/\ \A i, k \in 1..Len(timeline) : i # k => timeline[i].id # timeline[k].id
        /\ Ids(timeline) \cap Ids(scenes) = {})
  /\ [][SceneDragged
          => LET source == scenes[FindIndex(scenes, lastEvent'.id)]
             IN /\ Len(timeline') = Len(timeline) + 1
                /\ IsPrefix(timeline, timeline')
                /\ Last(timeline').id \notin Ids(timeline) \cup Ids(scenes)
                /\ Last(timeline').name = source.name
                /\ Last(timeline').url = source.url]_vars

\* one Scene was dragged three times: three entries of the same name and media
C3_Witness ==
  /\ Len(scenes) = 1
  /\ Len(timeline) = 3
  /\ \A i \in 1..3 : timeline[i].name = scenes[1].name /\ timeline[i].url = scenes[1].url
  /\ Cardinality(Ids(timeline)) = 3

\* this step is a drag whose active id belongs to a Timeline Entry
TimelineEntryDragged ==
  /\ Handled("dragEnd")
  /\ lastEvent'.id \in Ids(timeline)

\* C4: a drag that starts on a Timeline Entry leaves the multiset of Timeline
\* Entries unchanged.
C4_ReorderKeepsEntries ==
  [][TimelineEntryDragged => Occurrences(timeline') = Occurrences(timeline)]_vars

\* a reorder put the entry dragged in second before the one dragged in first
C4_Witness ==
  /\ lastEvent.op = "dragEnd"
  /\ lastEvent.id \in Ids(timeline)
  /\ Last(logs).message.kind = "reordered"
  /\ Len(timeline) = 2
  /\ timeline[1].id = TimelineId(3)
  /\ timeline[2].id = TimelineId(2)

C6_EmptyExportIsRefusedLocally ==
  [][(Handled("download") /\ Len(timeline) = 0)
       => /\ requests' = requests
          /\ Len(logs') = Len(logs) + 1
          /\ IsPrefix(logs, logs')
          /\ Last(logs').message.kind = "emptyTimeline"]_vars

\* export was triggered on a Timeline emptied by a delete
C6_Witness ==
  /\ lastEvent.op = "download"
  /\ Len(timeline) = 0
  /\ Last(logs).message.kind = "emptyTimeline"
  /\ "removed" \in Kinds(logs)

\* the positions in requests of the upload requests and of the stitch requests
\* of export j
UploadRequests(j) ==
  {k \in 1..Len(requests) : requests[k].kind = "upload" /\ requests[k].job = j}
StitchRequests(j) ==
  {k \in 1..Len(requests) : requests[k].kind = "stitch" /\ requests[k].job = j}
FailedUploads(j) ==
  {i \in 1..Len(exports[j].tasks) : exports[j].tasks[i].pc = "failed"}

\* C7: in an export in which a clip's upload fails no stitch request is issued,
\* and an error line of the log names a clip whose upload failed.
C7_FailedUploadAbortsAndNamesClip ==
  \A j \in 1..Len(exports) :
    FailedUploads(j) # {}
      => /\ StitchRequests(j) = {}
         /\ \E k \in 1..Len(logs), i \in FailedUploads(j) :
              /\ logs[k].message.kind = "error"
              /\ logs[k].message.name = exports[j].tasks[i].scene.name

\* C8: a successful export of n entries has issued exactly n upload requests,
\* one per entry, and exactly one stitch request; a stitch request is issued
\* only once every upload of its export has succeeded, and its file_paths hold
\* at position i the path the service returned for entry i.
C8_UploadsJoinedThenStitchedInOrder ==
  \A j \in 1..Len(exports) :
    LET tasks == exports[j].tasks
        n == Len(tasks)
    IN /\ Cardinality(StitchRequests(j)) <= 1
       /\ \A s \in StitchRequests(j) :
            /\ Len(requests[s].paths) = n
            /\ \A i \in 1..n :
                 /\ tasks[i].pc = "done"
                 /\ \E k \in UploadRequests(j) :
                      /\ k < s
                      /\ requests[k].idx = i
                      /\ requests[s].paths[i] = ServerPath(k)
       /\ exports[j].pc = "done"
            => /\ Cardinality(StitchRequests(j)) = 1
               /\ Cardinality(UploadRequests(j)) = n
               /\ \A i \in 1..n :
                    \E k \in UploadRequests(j) :
                      requests[k].idx = i /\ requests[k].text = tasks[i].scene.id

\* an export of two entries went through although the upload of the second
\* entry was issued before that of the first
C8_Witness ==
  \E j \in 1..Len(exports) :
    /\ exports[j].pc = "done"
    /\ Len(exports[j].tasks) = 2
    /\ \E k1, k2 \in UploadRequests(j) :
         requests[k1].idx = 1 /\ requests[k2].idx = 2 /\ k2 < k1

\* this step changes the Scene Store, the Timeline or the active preview
StoreChanges == scenes' # scenes \/ timeline' # timeline \/ previewUrl' # previewUrl

\* the log line that goes with the change of this step
LineOfChange ==
  IF scenes' # scenes THEN "generated"
  ELSE IF Len(timeline') > Len(timeline) THEN "added"
  ELSE IF Len(timeline') < Len(timeline) THEN "removed"
  ELSE IF timeline' # timeline THEN "reordered"
  ELSE "previewing"

\* C9: every step that changes the Scene Store, the Timeline or the active
\* preview appends exactly one Log Entry, the one that goes with the change.
C9_EveryChangeLogsOneLine ==
  [][StoreChanges
       => /\ Len(logs') = Len(logs) + 1
          /\ IsPrefix(logs, logs')
          /\ Last(logs').message.kind = LineOfChange]_vars

\* a generation, two drags of the scene and a reorder have left one line each
C9_Witness ==
  /\ Len(logs) = 6
  /\ [i \in 1..6 |-> logs[i].message.kind]
       = <<"init", "requesting", "generated", "added", "added", "reordered">>
  /\ Len(scenes) = 1
  /\ Len(timeline) = 2

\* C10: the log is append-only: in every step the log before the step is a
\* prefix of the log after it.
C10_LogIsAppendOnly ==
  [][IsPrefix(logs, logs')]_vars

\* a line of a user event stands between the lines of a running export, and the
\* lines written before are still where they were
C10_Witness ==
  \E i, k, l \in 1..Len(logs) :
    /\ i < k /\ k < l
    /\ logs[i].message.kind = "uploading"
    /\ logs[k].message.kind = "saved"
    /\ logs[l].message.kind = "allUploaded"
    /\ logs[1].message.kind = "init"

\* the generate-scene requests issued so far
GenerateRequests == {k \in 1..Len(requests) : requests[k].kind = "generate"}

\* a generation request has been issued and has neither completed nor failed
GenerationInFlight == gen.pc \in {"fetch", "errorJson", "blob"}

\* C11: while a generation request is in flight the Add Scene control is
\* disabled (isGenerating is true), and no step issues a generation request
\* while one is in flight.
C11_OneGenerationAtATime ==
  /\ [](GenerationInFlight => isGenerating)
  /\ [][Len(requests') > Len(requests) /\ Last(requests').kind = "generate"
          => ~GenerationInFlight /\ ~isGenerating /\ isGenerating']_vars

\* a second generation request was issued after the first one had ended; the
\* user typed into the box while the second was in flight
C11_Witness ==
  /\ Cardinality(GenerateRequests) = 2
  /\ GenerationInFlight
  /\ isGenerating
  /\ lastEvent.op = "setDesc"

\* this step handles the failure of the generation request in flight
GenerationFails ==
  /\ GenerationInFlight
  /\ gen'.pc = "idle"
  /\ Last(logs').message.kind = "error"

\* this step handles the failure of export j
ExportFailsIn(j) == exports[j].pc # "failed" /\ exports'[j].pc = "failed"

\* the step appends one error line and nothing else to the log
OneErrorLine ==
  /\ Len(logs') = Len(logs) + 1
  /\ IsPrefix(logs, logs')
  /\ Last(logs').message.kind = "error"

\* C12: the step that handles a failed generation, and the step that handles a
\* failed export, leave the Scene Store, the Timeline and the active preview
\* (and the description box) as they were: they append the error line and
\* re-enable the control of the failed operation, nothing else.
C12_FailuresLeaveStoresUntouched ==
  /\ [][GenerationFails
          => /\ UNCHANGED <<scenes, timeline, previewUrl, desc, isDownloading>>
             /\ OneErrorLine
             /\ ~isGenerating']_vars
  /\ [][\A j \in 1..Len(exports) :
          ExportFailsIn(j)
            => /\ UNCHANGED <<scenes, timeline, previewUrl, desc, isGenerating>>
               /\ OneErrorLine
               /\ ~isDownloading']_vars

\* a generation failed, the retry succeeded, and an export of the scene failed:
\* two error lines, and scene, entry and preview are all still there
C12_Witness ==
  /\ Cardinality({k \in 1..Len(logs) : logs[k].message.kind = "error"}) = 2
  /\ Cardinality(GenerateRequests) = 2
  /\ Len(exports) = 1
  /\ exports[1].pc = "failed"
  /\ ~isDownloading
  /\ ~isGenerating
  /\ Len(scenes) = 1
  /\ Len(timeline) = 1
  /\ previewUrl = scenes[1].url

\* this step handles one of the two user-input errors
UserInputError ==
  \/ Handled("addScene") /\ IsBlank(lastEvent'.text)
  \/ Handled("download") /\ Len(timeline) = 0

\* C13: an empty or whitespace-only prompt, and an export of an empty Timeline,
\* are each rejected without a network request and each append a Log Entry.
C13_InputErrorsRejectedAndLogged ==
  [][UserInputError
       => /\ requests' = requests
          /\ Len(logs') = Len(logs) + 1
          /\ IsPrefix(logs, logs')]_vars

\* the object URLs held that belong to no scene: the download handles of exports
DownloadHandles == objectUrls \ {scenes[i].url : i \in 1..Len(scenes)}

\* C14: once every export that was started has finished, on whatever path, no
\* download handle is still held.
C14_DownloadHandleReleased ==
  (\A j \in 1..Len(exports) : exports[j].pc \in {"done", "failed"})
    => DownloadHandles = {}

\* C15: in every step the Scene Store before the step is a prefix of the Scene
\* Store after it, and the steps of user events (drag, reorder, delete,
\* preview, save, typing, the clicks) and of exports leave it as it is.
C15_SceneStoreOnlyGrows ==
  [][/\ IsPrefix(scenes, scenes')
     /\ (nEvents' # nEvents \/ exports' # exports) => scenes' = scenes]_vars

\* the scene is still in the Scene Store after it was dragged to the Timeline,
\* exported, and its Timeline Entry deleted
C15_Witness ==
  /\ Len(scenes) = 1
  /\ scenes[1].id = SceneId(1)
  /\ {"added", "uploading", "removed"} \subseteq Kinds(logs)
  /\ Len(timeline) = 0

\* C16: if no connection attempt succeeds, the bootstrap makes at most 30
\* attempts, the only way it ends is an exit with a non-zero code after the
\* 30th attempt, and neither init_db.py nor the server command is run.
C16_UnreachableDatabaseFailsLoudly ==
  /\ attempt <= 30
  /\ ~connected
       => /\ initStatus = NotRun
          /\ bootPc \in {"wait", "sleep", "exited"}
          /\ bootPc = "exited" => exitCode # 0 /\ exitCode # NotRun /\ attempt = 30

\* the script has given up after 30 failed attempts
C16_Witness ==
  /\ bootPc = "exited"
  /\ ~connected
  /\ attempt = 30
  /\ exitCode = 1
  /\ initStatus = NotRun

\* C17: the server command is run only after a connection attempt has succeeded
\* and init_db.py has then ended with status 0; init_db.py runs only after a
\* connection attempt has succeeded; a failed init_db.py ends the script with
\* its status and the server command is not run.
C17_ServerOnlyAfterDatabaseAndInit ==
  /\ bootPc \in {"exec", "server"} => connected /\ initStatus = 0
  /\ initStatus # NotRun => connected
  /\ initStatus \notin {NotRun, 0} => bootPc = "exited" /\ exitCode = initStatus

\* the server runs; the database came up after some failed attempts
C17_Witness ==
  /\ bootPc = "server"
  /\ attempt = 3
  /\ connected
  /\ initStatus = 0
  /\ exitCode = NotRun

\* the drop target of this step's drag is a Timeline Entry at another position
\* than the dragged one
DroppedOnOtherEntry ==
  /\ lastEvent'.over \in Ids(timeline)
  /\ \E i, k \in 1..Len(timeline) :
       /\ i # k
       /\ timeline[i].id = lastEvent'.id
       /\ timeline[k].id = lastEvent'.over

\* C18: a drag that starts on a Timeline Entry and ends on no target, on
\* something that is no Timeline Entry, or on the dragged entry itself leaves
\* the Timeline and the log as they were.
C18_OtherDropsAreNoOps ==
  [][(TimelineEntryDragged /\ ~DroppedOnOtherEntry)
       => timeline' = timeline /\ logs' = logs]_vars

\* an entry was dropped on a scene of the Scene Store and nothing was logged
\* after the line of the drag that had made the entry
C18_Witness ==
  /\ lastEvent.op = "dragEnd"
  /\ lastEvent.id \in Ids(timeline)
  /\ lastEvent.over \in Ids(scenes)
  /\ Len(timeline) = 2
  /\ Last(logs).message.kind = "added"

\* the clips export j works on
Clips(tasks) == [i \in 1..Len(tasks) |-> tasks[i].scene]

C20_StartedWorkEnds ==
  /\ isGenerating ~> (~isGenerating /\ gen.pc = "idle")
  /\ isDownloading ~> ~isDownloading
  /\ \A j \in Jobs :
       (j <= Len(exports)) ~> (j <= Len(exports) /\ exports[j].pc \in {"done", "failed"})

\* a generation and an export were started and have ended, and both controls are
\* enabled again
C20_Witness ==
  /\ ~isGenerating
  /\ ~isDownloading
  /\ gen.pc = "idle"
  /\ {"requesting", "generated", "uploading", "downloaded"} \subseteq Kinds(logs)
  /\ Len(exports) = 1
  /\ exports[1].pc = "done"

====
